---------------------------- MODULE Spec2Model ----------------------------
(***************************************************************************)
(* Thermal supervisory loop of gpu-temp-monitor (src/main.go).             *)
(*                                                                         *)
(* Temperatures are float64 in the source.  The model counts tenths of a   *)
(* degree Celsius (the unit of the serial protocol, "MSG:T:225" = 22.5 C), *)
(* so 70.0 C is 700.  GPU temperatures are drawn from multiples of half a  *)
(* degree: on those every product of the fan curve is exact in float64,    *)
(* and the integer arithmetic below equals the float arithmetic of the     *)
(* source.                                                                 *)
(***************************************************************************)
EXTENDS Integers, Sequences, FiniteSets, TLC

VARIABLES
    pc,          \* "start": main before the initial check; "serial": in a tick,
                 \* before its serial read; "select": main at its select; "done"
    alertState,  \* the AlertState struct that main hands to every tick
    last,        \* what the latest call of monitorAndControl read and did
    warned,      \* per channel: "accepted" or "failed", the outcome of the send
                 \* of the latest Warning event when no Recovery or Critical
                 \* event of the channel followed it; "no" otherwise
    scenario,    \* progress of the run along ScenarioReadings, and its events
    shutdownSent,\* number of shutdown notifications sent by main
    fanIn,       \* SpecFan: the two temperatures given to calculateFanSpeed
    fanOut,      \* SpecFan: the two duty cycles it returned
    ttys,        \* SpecDetect: the serial devices that exist, and how each
                 \* behaves when opened and probed
    detect,      \* SpecDetect: detectArduino's position, locals and result
    pending,     \* SpecNotify: alert deliveries SendAsync started that have
                 \* not completed
    serial       \* SpecSerial: the lines the Arduino has sent that the scanner
                 \* has not returned yet, and how many the latest tick took

vars == <<pc, alertState, last, warned, scenario, shutdownSent, fanIn, fanOut,
          ttys, detect, pending, serial>>

---------------------------------------------------------------------------
(* Bounds of the model *)

\* most lines nvidia-smi prints in one tick (one line per GPU)
MaxLines == 2

\* calculateFanSpeed is explored on every half degree from FanBelow degrees
\* below zero to FanHigh degrees above
FanBelow == 10
FanHigh == 100

\* most lines of the Arduino that wait for the scanner
MaxAvail == 2

\* most lines a probed serial device sends before the deadline of the probe
MaxProbeLines == 2

\* deliveries in flight are counted up to MaxPending
MaxPending == 2

---------------------------------------------------------------------------
(* Configuration: loadConfig with no environment override *)

\* degrees Celsius -> tenths of a degree
Deg(d) == 10 * d

defaultWarningThreshold == Deg(70)
defaultCriticalThreshold == Deg(80)
defaultAmbientThreshold == Deg(24)

config == [WarningThreshold  |-> defaultWarningThreshold,
           CriticalThreshold |-> defaultCriticalThreshold,
           AmbientThreshold  |-> defaultAmbientThreshold]

---------------------------------------------------------------------------
(* Inputs of one tick *)

\* temperature fields nvidia-smi may print on a line
GpuTempValues == {Deg(65), Deg(70), Deg(72), Deg(73), Deg(80), Deg(85)}

\* one output line of nvidia-smi: a usable "index, temperature, name" row,
\* or a line the parser skips (too few fields, or a field that does not parse)
OutputLines == [usable : {TRUE}, temp : GpuTempValues]
                 \cup {[usable |-> FALSE, temp |-> 0]}

SeqsUpTo(S, n) == UNION {[1..k -> S] : k \in 0..n}

\* what running nvidia-smi gives: the command failed, or its output lines
\* (no line at all when the output is empty)
NvidiaOutputs == [failed : {TRUE}, lines : {<<>>}]
                   \cup [failed : {FALSE}, lines : SeqsUpTo(OutputLines, MaxLines)]

\* raw temperature fields of the MSG:T:<t>-H:<h> lines of the Arduino, in tenths
AmbientRawValues == {240, 245}

\* what scanner.Scan() gives in one tick: no line, a well-formed ambient
\* message, or a line parseDHT22Message rejects (banner, FAN: echo, ERR:, or
\* a MSG:T: line whose fields do not parse)
SerialLines == [kind : {"none", "other"}, t : {0}, h : {0}]
                 \cup [kind : {"msg"}, t : AmbientRawValues, h : {550}]

---------------------------------------------------------------------------
(* getGPUTemperatures *)

RECURSIVE ParseRows(_, _)
\* the loop of lines 223-250: rows i..Len(lines), malformed lines skipped;
\* nvidia-smi prints the GPU index, the position of the row, in field 0
ParseRows(lines, i) ==
    IF i > Len(lines) THEN <<>>
    ELSE IF lines[i].usable
         THEN <<[Index |-> i - 1, Temperature |-> lines[i].temp]>>
                  \o ParseRows(lines, i + 1)
         ELSE ParseRows(lines, i + 1)

getGPUTemperatures(out) ==
    IF out.failed
    THEN [err |-> TRUE, temps |-> <<>>]
    ELSE [err |-> FALSE, temps |-> ParseRows(out.lines, 1)]

---------------------------------------------------------------------------
(* calculateFanSpeed *)

RECURSIVE HottestFrom(_, _, _)
\* the loops of lines 291-296 and 368-375: the maximum starts at 0.0 with a
\* zero-value GPU and moves only on a strictly greater temperature
HottestFrom(gpuTemps, i, acc) ==
    IF i > Len(gpuTemps) THEN acc
    ELSE IF gpuTemps[i].Temperature > acc.maxTemp
         THEN HottestFrom(gpuTemps, i + 1,
                          [maxTemp |-> gpuTemps[i].Temperature, hotGPU |-> gpuTemps[i]])
         ELSE HottestFrom(gpuTemps, i + 1, acc)

RECURSIVE HottestLastFrom(_, _, _)
\* the loop with >= for >: among equal maxima the last GPU is the hot one
HottestLastFrom(gpuTemps, i, acc) ==
    IF i > Len(gpuTemps) THEN acc
    ELSE IF gpuTemps[i].Temperature >= acc.maxTemp
         THEN HottestLastFrom(gpuTemps, i + 1,
                              [maxTemp |-> gpuTemps[i].Temperature, hotGPU |-> gpuTemps[i]])
         ELSE HottestLastFrom(gpuTemps, i + 1, acc)

HottestLast(gpuTemps) ==
    HottestLastFrom(gpuTemps, 1, [maxTemp |-> 0, hotGPU |-> [Index |-> 0, Temperature |-> 0]])

Hottest(gpuTemps) ==
    HottestFrom(gpuTemps, 1, [maxTemp |-> 0, hotGPU |-> [Index |-> 0, Temperature |-> 0]])

\* Go's int(x) of the non-negative float num/den
IntOf(num, den) == num \div den

\* the switch with the base of the 50-60 band copied into the 60-70 band
FanCurveCopiedBase(maxTemp) ==
    IF maxTemp < Deg(50) THEN 30
    ELSE IF maxTemp < Deg(60) THEN 30 + IntOf((maxTemp - Deg(50)) * 2, 10)
    ELSE IF maxTemp < Deg(70) THEN 30 + IntOf((maxTemp - Deg(60)) * 25, 100)
    ELSE IF maxTemp < Deg(80) THEN 75 + IntOf((maxTemp - Deg(70)) * 15, 100)
    ELSE 100

\* the switch of lines 305-316
FanCurve(maxTemp) ==
    IF maxTemp < Deg(50) THEN 30
    ELSE IF maxTemp < Deg(60) THEN 30 + IntOf((maxTemp - Deg(50)) * 2, 10)
    ELSE IF maxTemp < Deg(70) THEN 50 + IntOf((maxTemp - Deg(60)) * 25, 100)
    ELSE IF maxTemp < Deg(80) THEN 75 + IntOf((maxTemp - Deg(70)) * 15, 100)
    ELSE 100

\* calculateFanSpeed without the loop of lines 291-296: the curve is applied
\* to the first GPU
calculateFanSpeedOfFirst(gpuTemps) ==
    IF Len(gpuTemps) = 0 THEN 50
    ELSE FanCurve(IF gpuTemps[1].Temperature > 0 THEN gpuTemps[1].Temperature ELSE 0)

calculateFanSpeed(gpuTemps) ==
    IF Len(gpuTemps) = 0 THEN 50
    ELSE FanCurve(Hottest(gpuTemps).maxTemp)

---------------------------------------------------------------------------
(* setFanSpeed and the fan step of monitorAndControl, lines 356-365 *)

\* the value setFanSpeed writes in "FAN:<speed>": clamped to 0..100
ClampSpeed(speed) == IF speed < 0 THEN 0 ELSE IF speed > 100 THEN 100 ELSE speed

\* FanStep without the test of line 358: every tick writes its duty cycle
FanStepAlwaysWrites(st, gpuTemps, writeOK) ==
    LET fanSpeed == calculateFanSpeed(gpuTemps) IN
    [st    |-> IF writeOK THEN [st EXCEPT !.LastFanSpeed = fanSpeed] ELSE st,
     fan   |-> fanSpeed,
     wrote |-> <<[speed |-> ClampSpeed(fanSpeed), ok |-> writeOK]>>]

\* FanStep with line 363 moved out of the else: the duty cycle is stored
\* whether or not the write succeeded
FanStepStoresOnFailure(st, gpuTemps, writeOK) ==
    LET fanSpeed == calculateFanSpeed(gpuTemps) IN
    IF fanSpeed # st.LastFanSpeed
    THEN [st    |-> [st EXCEPT !.LastFanSpeed = fanSpeed],
          fan   |-> fanSpeed,
          wrote |-> <<[speed |-> ClampSpeed(fanSpeed), ok |-> writeOK]>>]
    ELSE [st |-> st, fan |-> fanSpeed, wrote |-> <<>>]

\* writeOK: whether port.Write succeeds, should the step write
FanStep(st, gpuTemps, writeOK) ==
    LET fanSpeed == calculateFanSpeed(gpuTemps) IN
    IF fanSpeed # st.LastFanSpeed
    THEN [st    |-> IF writeOK THEN [st EXCEPT !.LastFanSpeed = fanSpeed] ELSE st,
          fan   |-> fanSpeed,
          wrote |-> <<[speed |-> ClampSpeed(fanSpeed), ok |-> writeOK]>>]
    ELSE [st |-> st, fan |-> fanSpeed, wrote |-> <<>>]

---------------------------------------------------------------------------
(* The GPU alert logic of monitorAndControl, lines 367-432 *)

\* an event handed to apialerts.SendAsync; ok: SendAsync returned no error.
\* index is the GPU index the message names, -1 when it names none.
Event(chan, kind, index, value, ok) ==
    [chan |-> chan, kind |-> kind, index |-> index, value |-> value, ok |-> ok]

\* CriticalBranch without line 392: an accepted Critical opens only GPUCritical
CriticalBranchOnlyCritical(st, maxTemp, hotGPU, sendOK) ==
    IF ~st.GPUCritical
    THEN [st     |-> IF sendOK THEN [st EXCEPT !.GPUCritical = TRUE] ELSE st,
          events |-> <<Event("gpu", "Critical", hotGPU.Index, maxTemp, sendOK)>>]
    ELSE [st |-> st, events |-> <<>>]

\* CriticalBranch without the test of line 379: a Critical event on every
\* reading above the threshold
CriticalBranchRepeats(st, maxTemp, hotGPU, sendOK) ==
    [st     |-> IF sendOK
                THEN [st EXCEPT !.GPUCritical = TRUE, !.GPUWarning = TRUE]
                ELSE st,
     events |-> <<Event("gpu", "Critical", hotGPU.Index, maxTemp, sendOK)>>]

\* lines 378-395, maxTemp > CriticalThreshold; sendOK: whether SendAsync
\* succeeds, should the branch send
CriticalBranch(st, maxTemp, hotGPU, sendOK) ==
    IF ~st.GPUCritical
    THEN [st     |-> IF sendOK
                     THEN [st EXCEPT !.GPUCritical = TRUE, !.GPUWarning = TRUE]
                     ELSE st,
          events |-> <<Event("gpu", "Critical", hotGPU.Index, maxTemp, sendOK)>>]
    ELSE [st |-> st, events |-> <<>>]

\* WarningBranch without line 409: an accepted Warning does not open GPUWarning
WarningBranchNoFlag(st, maxTemp, hotGPU, sendOK) ==
    LET sends == ~st.GPUWarning
        st2   == IF st.GPUCritical THEN [st EXCEPT !.GPUCritical = FALSE] ELSE st
    IN [st     |-> st2,
        events |-> IF sends
                   THEN <<Event("gpu", "Warning", hotGPU.Index, maxTemp, sendOK)>>
                   ELSE <<>>]

\* WarningBranch without lines 413-416: GPUCritical stays open in the warning band
WarningBranchKeepsCritical(st, maxTemp, hotGPU, sendOK) ==
    LET sends == ~st.GPUWarning
        st1   == IF sends /\ sendOK THEN [st EXCEPT !.GPUWarning = TRUE] ELSE st
    IN [st     |-> st1,
        events |-> IF sends
                   THEN <<Event("gpu", "Warning", hotGPU.Index, maxTemp, sendOK)>>
                   ELSE <<>>]

\* WarningBranch with the arguments of the message swapped: the event carries
\* the threshold, not the temperature
WarningBranchCarriesThreshold(st, maxTemp, hotGPU, sendOK) ==
    LET sends == ~st.GPUWarning
        st1   == IF sends /\ sendOK THEN [st EXCEPT !.GPUWarning = TRUE] ELSE st
        st2   == IF st1.GPUCritical THEN [st1 EXCEPT !.GPUCritical = FALSE] ELSE st1
    IN [st     |-> st2,
        events |-> IF sends
                   THEN <<Event("gpu", "Warning", hotGPU.Index,
                                config.WarningThreshold, sendOK)>>
                   ELSE <<>>]

\* lines 396-416, WarningThreshold < maxTemp <= CriticalThreshold
WarningBranch(st, maxTemp, hotGPU, sendOK) ==
    LET sends == ~st.GPUWarning
        st1   == IF sends /\ sendOK THEN [st EXCEPT !.GPUWarning = TRUE] ELSE st
        st2   == IF st1.GPUCritical THEN [st1 EXCEPT !.GPUCritical = FALSE] ELSE st1
    IN [st     |-> st2,
        events |-> IF sends
                   THEN <<Event("gpu", "Warning", hotGPU.Index, maxTemp, sendOK)>>
                   ELSE <<>>]

\* NormalBranch without lines 429-430: the Recovery is sent, the flags stay
NormalBranchKeepsFlags(st, maxTemp, hotGPU, sendOK) ==
    IF st.GPUWarning \/ st.GPUCritical
    THEN [st     |-> st,
          events |-> <<Event("gpu", "Recovery", -1, maxTemp, sendOK)>>]
    ELSE [st |-> st, events |-> <<>>]

\* lines 417-432, maxTemp <= WarningThreshold: the flags are cleared after
\* the if/else on the result of SendAsync, whatever that result
NormalBranch(st, maxTemp, hotGPU, sendOK) ==
    IF st.GPUWarning \/ st.GPUCritical
    THEN [st     |-> [st EXCEPT !.GPUWarning = FALSE, !.GPUCritical = FALSE],
          events |-> <<Event("gpu", "Recovery", -1, maxTemp, sendOK)>>]
    ELSE [st |-> st, events |-> <<>>]

\* GpuAlertStep with >= for > in the tests of lines 378 and 396
GpuAlertStepInclusive(st, gpuTemps, sendOK) ==
    LET h == Hottest(gpuTemps) IN
    IF h.maxTemp >= config.CriticalThreshold
    THEN CriticalBranch(st, h.maxTemp, h.hotGPU, sendOK)
    ELSE IF h.maxTemp >= config.WarningThreshold
    THEN WarningBranch(st, h.maxTemp, h.hotGPU, sendOK)
    ELSE NormalBranch(st, h.maxTemp, h.hotGPU, sendOK)

\* lines 367-432: one alert state for all GPUs, driven by the hottest
GpuAlertStep(st, gpuTemps, sendOK) ==
    LET h == Hottest(gpuTemps) IN
    IF h.maxTemp > config.CriticalThreshold
    THEN CriticalBranch(st, h.maxTemp, h.hotGPU, sendOK)
    ELSE IF h.maxTemp > config.WarningThreshold
    THEN WarningBranch(st, h.maxTemp, h.hotGPU, sendOK)
    ELSE NormalBranch(st, h.maxTemp, h.hotGPU, sendOK)

---------------------------------------------------------------------------
(* The ambient logic of monitorAndControl, lines 435-481 *)

\* parseDHT22Message: Temperature = tempRaw / 10.0, kept in tenths
parseDHT22Message(line) ==
    IF line.kind = "msg"
    THEN [err |-> FALSE, Temperature |-> line.t, Humidity |-> line.h]
    ELSE [err |-> TRUE, Temperature |-> 0, Humidity |-> 0]

AmbientStep(st, line, sendOK) ==
    IF line.kind = "none" THEN [st |-> st, events |-> <<>>]
    ELSE
    LET reading == parseDHT22Message(line) IN
    IF reading.err THEN [st |-> st, events |-> <<>>]
    ELSE
    LET r == IF reading.Temperature > config.AmbientThreshold
             THEN IF ~st.AmbientWarning
                  THEN [st     |-> IF sendOK THEN [st EXCEPT !.AmbientWarning = TRUE] ELSE st,
                        events |-> <<Event("ambient", "Warning", -1,
                                           reading.Temperature, sendOK)>>]
                  ELSE [st |-> st, events |-> <<>>]
             ELSE IF st.AmbientWarning
                  THEN [st     |-> IF sendOK THEN [st EXCEPT !.AmbientWarning = FALSE] ELSE st,
                        events |-> <<Event("ambient", "Recovery", -1,
                                           reading.Temperature, sendOK)>>]
                  ELSE [st |-> st, events |-> <<>>]
    IN [st     |-> [r.st EXCEPT !.LastAmbientTemp = reading.Temperature],
        events |-> r.events]

---------------------------------------------------------------------------
(* monitorAndControl, lines 345-482: one tick *)

\* GpuPart without the test of err at line 348: the fan and the alerts run on
\* the nil slice that comes with the error
GpuPartIgnoresError(st, out, writeOK, sendOK) ==
    LET got == getGPUTemperatures(out)
        f   == FanStep(st, got.temps, writeOK)
        g   == GpuAlertStep(f.st, got.temps, sendOK)
    IN [st        |-> g.st,
        err       |-> got.err,
        rows      |-> Len(got.temps),
        maxTemp   |-> Hottest(got.temps).maxTemp,
        fanSpeed  |-> f.fan,
        wrote     |-> f.wrote,
        events    |-> g.events]

\* Lines 346-433, the first part of a tick: the fan and the GPU alerts run
\* only when getGPUTemperatures returned no error (the else of line 350).
GpuPart(st, out, writeOK, sendOK) ==
    LET got == getGPUTemperatures(out)
        f   == IF got.err
               THEN [st |-> st, fan |-> st.LastFanSpeed, wrote |-> <<>>]
               ELSE FanStep(st, got.temps, writeOK)
        g   == IF got.err
               THEN [st |-> f.st, events |-> <<>>]
               ELSE GpuAlertStep(f.st, got.temps, sendOK)
    IN [st        |-> g.st,
        err       |-> got.err,
        rows      |-> Len(got.temps),
        maxTemp   |-> Hottest(got.temps).maxTemp,
        fanSpeed  |-> f.fan,
        wrote     |-> f.wrote,
        events    |-> g.events]

\* Lines 435-481, the second part of a tick, reached on either outcome of the
\* acquisition: at most one line is taken from the scanner.
SerialPart(st, line, sendOK) == AmbientStep(st, line, sendOK)

\* AlertState as main builds it, lines 545-547
InitialAlertState ==
    [GPUWarning |-> FALSE, GPUCritical |-> FALSE, AmbientWarning |-> FALSE,
     LastFanSpeed |-> 50, LastAmbientTemp |-> 0]

\* last: the flags the latest tick started with, what it acquired and what it
\* did; the serial fields are filled when the tick reaches line 436
NoTick ==
    [ran       |-> FALSE,
     before    |-> [GPUWarning |-> FALSE, GPUCritical |-> FALSE, AmbientWarning |-> FALSE],
     failed    |-> FALSE,
     err       |-> FALSE,
     usable    |-> FALSE,
     maxTemp   |-> 0,
     fanSpeed  |-> 50,
     wrote     |-> <<>>,
     gpuEvents |-> <<>>,
     scanned   |-> FALSE,
     line      |-> "none",
     ambEvents |-> <<>>]

GpuRecord(before, out, r) ==
    [ran       |-> TRUE,
     before    |-> [GPUWarning     |-> before.GPUWarning,
                    GPUCritical    |-> before.GPUCritical,
                    AmbientWarning |-> before.AmbientWarning],
     failed    |-> out.failed,
     err       |-> r.err,
     usable    |-> r.rows > 0,
     maxTemp   |-> r.maxTemp,
     fanSpeed  |-> r.fanSpeed,
     wrote     |-> r.wrote,
     gpuEvents |-> r.events,
     scanned   |-> FALSE,
     line      |-> "none",
     ambEvents |-> <<>>]

RECURSIVE WarnedAfter(_, _, _)
\* warned of a channel after the events evs[i..] were handed to SendAsync
WarnedAfter(w, evs, i) ==
    IF i > Len(evs) THEN w
    ELSE WarnedAfter(IF evs[i].kind = "Warning"
                     THEN (IF evs[i].ok THEN "accepted" ELSE "failed")
                     ELSE "no",
                     evs, i + 1)

---------------------------------------------------------------------------
(* The scenario of a single GPU reading 65, 72, 85, 73, 65 *)

ScenarioReadings == <<Deg(65), Deg(72), Deg(85), Deg(73), Deg(65)>>

\* the tick read exactly one GPU, at ScenarioReadings[k], and every alert it
\* sent for the GPU was accepted
ScenarioTick(k, out, r) ==
    /\ ~out.failed
    /\ out.lines = <<[usable |-> TRUE, temp |-> ScenarioReadings[k]]>>
    /\ \A i \in 1..Len(r.events) : r.events[i].ok

\* the run is followed from any tick that starts with both GPU flags clear
ScenarioNext(sc, before, out, r) ==
    IF sc.step >= 1 /\ sc.step < Len(ScenarioReadings) /\ ScenarioTick(sc.step + 1, out, r)
    THEN [step |-> sc.step + 1, events |-> sc.events \o r.events]
    ELSE IF ScenarioTick(1, out, r) /\ ~before.GPUWarning /\ ~before.GPUCritical
    THEN [step |-> 1, events |-> r.events]
    ELSE [step |-> 0, events |-> <<>>]

---------------------------------------------------------------------------
(* main, lines 544-579, and the two parts of the tick it calls *)

\* the outcomes of an operation: either, when it is attempted; when it is
\* not, nothing depends on the outcome
Outcomes(attempted) == IF attempted THEN BOOLEAN ELSE {TRUE}

\* lines 346-433 of a tick in which nvidia-smi gives one of outs
CheckGpuOn(outs) ==
    \E out \in outs :
    \E try \in {GpuPart(alertState, out, TRUE, TRUE)} :
    \E writeOK \in Outcomes(try.wrote # <<>>), sendOK \in Outcomes(try.events # <<>>) :
    \E r \in {IF writeOK /\ sendOK THEN try ELSE GpuPart(alertState, out, writeOK, sendOK)} :
        /\ alertState' = r.st
        /\ last' = GpuRecord(alertState, out, r)
        /\ warned' = [warned EXCEPT !.gpu = WarnedAfter(@, r.events, 1)]
        /\ scenario' = ScenarioNext(scenario, alertState, out, r)

\* lines 346-433 of a tick
CheckGpu == CheckGpuOn(NvidiaOutputs)

\* lines 435-481 of a tick in which scanner.Scan() gives one of lines
CheckSerialOn(lines) ==
    \E line \in lines :
    \E try \in {SerialPart(alertState, line, TRUE)} :
    \E sendOK \in Outcomes(try.events # <<>>) :
    \E r \in {IF sendOK THEN try ELSE SerialPart(alertState, line, sendOK)} :
        /\ alertState' = r.st
        /\ last' = [last EXCEPT !.scanned = TRUE, !.line = line.kind,
                                !.ambEvents = r.events]
        /\ warned' = [warned EXCEPT !.ambient = WarnedAfter(@, r.events, 1)]
        /\ UNCHANGED scenario

\* lines 435-481 of a tick
CheckSerial == CheckSerialOn(SerialLines)

\* line 558: the initial check, before the loop, up to its serial read
InitialCheck ==
    /\ pc = "start"
    /\ CheckGpu
    /\ pc' = "serial"
    /\ UNCHANGED <<shutdownSent, fanIn, fanOut, ttys, detect, pending, serial>>

\* lines 563-564: the ticker fired; the tick up to its serial read
TimerTick ==
    /\ pc = "select"
    /\ CheckGpu
    /\ pc' = "serial"
    /\ UNCHANGED <<shutdownSent, fanIn, fanOut, ttys, detect, pending, serial>>

\* line 436 to the return of monitorAndControl: the tick ends and main is at
\* the select of line 562
SerialRead ==
    /\ pc = "serial"
    /\ CheckSerial
    /\ pc' = "select"
    /\ UNCHANGED <<shutdownSent, fanIn, fanOut, ttys, detect, pending, serial>>

\* Shutdown with a break for the return of line 577: the break leaves the
\* select, and the loop goes on
ShutdownBreaksSelect ==
    /\ pc = "select"
    /\ shutdownSent' = shutdownSent + 1
    /\ pc' = "select"
    /\ UNCHANGED <<alertState, last, warned, scenario, fanIn, fanOut, ttys, detect, pending, serial>>

\* lines 566-577: a signal arrived; one synchronous notification, then return
Shutdown ==
    /\ pc = "select"
    /\ shutdownSent' = shutdownSent + 1
    /\ pc' = "done"
    /\ UNCHANGED <<alertState, last, warned, scenario, fanIn, fanOut, ttys, detect, pending, serial>>

NoFanCall == [done |-> FALSE, one |-> 0, two |-> 0, both |-> 0]

\* the scanner main creates at line 529: nothing to return, nothing taken
NoSerial == [avail |-> <<>>, taken |-> 0]

\* detectArduino before its first statement
NoDetect ==
    [pc         |-> "glob",
     candidates |-> <<>>,
     i          |-> 1,
     opens      |-> <<>>,
     held       |-> {},
     probed     |-> <<>>,
     port       |-> "nil",
     device     |-> "",
     err        |-> "nil",
     checked    |-> <<>>,
     elapsed    |-> 0]

Init ==
    /\ pc = "start"
    /\ alertState = InitialAlertState
    /\ last = NoTick
    /\ warned = [gpu |-> "no", ambient |-> "no"]
    /\ scenario = [step |-> 0, events |-> <<>>]
    /\ shutdownSent = 0
    /\ fanIn = <<0, 0>>
    /\ fanOut = NoFanCall
    /\ ttys = <<>>
    /\ detect = NoDetect
    /\ pending = 0
    /\ serial = NoSerial

Next ==
    \/ InitialCheck
    \/ TimerTick
    \/ SerialRead
    \/ Shutdown

Spec == Init /\ [][Next]_vars

---------------------------------------------------------------------------
(* calculateFanSpeed as a function of its input: SpecFan *)

\* every half degree from -FanBelow C to FanHigh C, in tenths
FanTemps == {5 * k : k \in (-2 * FanBelow)..(2 * FanHigh)}

OneGPU(t) == <<[Index |-> 0, Temperature |-> t]>>

TwoGPUs(t, u) == <<[Index |-> 0, Temperature |-> t], [Index |-> 1, Temperature |-> u]>>

\* the function is called on a GPU at fanIn[1], on a GPU at fanIn[2], and on
\* the two together
CallFanSpeed ==
    /\ ~fanOut.done
    /\ fanOut' = [done |-> TRUE,
                  one  |-> calculateFanSpeed(OneGPU(fanIn[1])),
                  two  |-> calculateFanSpeed(OneGPU(fanIn[2])),
                  both |-> calculateFanSpeed(TwoGPUs(fanIn[1], fanIn[2]))]
    /\ UNCHANGED <<pc, alertState, last, warned, scenario, shutdownSent, fanIn,
                   ttys, detect, pending, serial>>

InitFan ==
    /\ pc = "start"
    /\ alertState = InitialAlertState
    /\ last = NoTick
    /\ warned = [gpu |-> "no", ambient |-> "no"]
    /\ scenario = [step |-> 0, events |-> <<>>]
    /\ shutdownSent = 0
    /\ fanIn \in FanTemps \X FanTemps
    /\ fanOut = NoFanCall
    /\ ttys = <<>>
    /\ detect = NoDetect
    /\ pending = 0
    /\ serial = NoSerial

NextFan == CallFanSpeed

SpecFan == InitFan /\ [][NextFan]_vars

---------------------------------------------------------------------------
(* The loop while the GPUs hold their temperatures: SpecRetry *)

\* nvidia-smi fails, or reports two GPUs at the temperatures fanIn
SteadyOutputs ==
    {[failed |-> TRUE, lines |-> <<>>],
     [failed |-> FALSE, lines |-> <<[usable |-> TRUE, temp |-> fanIn[1]],
                                    [usable |-> TRUE, temp |-> fanIn[2]]>>]}

\* the duty cycle every tick that acquires the readings computes
RetryTarget == calculateFanSpeed(TwoGPUs(fanIn[1], fanIn[2]))

SteadyInitialCheck ==
    /\ pc = "start"
    /\ CheckGpuOn(SteadyOutputs)
    /\ pc' = "serial"
    /\ UNCHANGED <<shutdownSent, fanIn, fanOut, ttys, detect, pending, serial>>

SteadyTimerTick ==
    /\ pc = "select"
    /\ CheckGpuOn(SteadyOutputs)
    /\ pc' = "serial"
    /\ UNCHANGED <<shutdownSent, fanIn, fanOut, ttys, detect, pending, serial>>

InitRetry ==
    /\ pc = "start"
    /\ alertState = InitialAlertState
    /\ last = NoTick
    /\ warned = [gpu |-> "no", ambient |-> "no"]
    /\ scenario = [step |-> 0, events |-> <<>>]
    /\ shutdownSent = 0
    /\ fanIn \in GpuTempValues \X GpuTempValues
    /\ fanOut = NoFanCall
    /\ ttys = <<>>
    /\ detect = NoDetect
    /\ pending = 0
    /\ serial = NoSerial

NextRetry ==
    \/ SteadyInitialCheck
    \/ SteadyTimerTick
    \/ SerialRead
    \/ Shutdown

\* monitorAndControl runs to its end: a tick that is at its serial read
\* takes it and returns to main
SpecRetry == InitRetry /\ [][NextRetry]_vars /\ WF_vars(SerialRead)

---------------------------------------------------------------------------
(* The loop and the deliveries apialerts.SendAsync starts: SpecNotify *)

\* nvidia-smi fails or prints at most one line
NotifyOutputs == {out \in NvidiaOutputs : Len(out.lines) <= 1}

\* the events SendAsync accepted: each starts a delivery
Accepted(evs) == Cardinality({i \in 1..Len(evs) : evs[i].ok})

\* n deliveries in flight and those of evs, counted up to MaxPending
Submit(n, evs) ==
    IF n + Accepted(evs) > MaxPending THEN MaxPending ELSE n + Accepted(evs)

NotifyInitialCheck ==
    /\ pc = "start"
    /\ CheckGpuOn(NotifyOutputs)
    /\ pending' = Submit(pending, last'.gpuEvents)
    /\ pc' = "serial"
    /\ UNCHANGED <<shutdownSent, fanIn, fanOut, ttys, detect, serial>>

NotifyTimerTick ==
    /\ pc = "select"
    /\ CheckGpuOn(NotifyOutputs)
    /\ pending' = Submit(pending, last'.gpuEvents)
    /\ pc' = "serial"
    /\ UNCHANGED <<shutdownSent, fanIn, fanOut, ttys, detect, serial>>

\* NotifySerialRead in a tick that, having sent with a call that returns
\* when the delivery is complete, is past its sends only when no delivery
\* is in flight
NotifySerialReadAfterDelivery ==
    /\ pc = "serial"
    /\ pending = 0
    /\ CheckSerial
    /\ pending' = Submit(pending, last'.ambEvents)
    /\ pc' = "select"
    /\ UNCHANGED <<shutdownSent, fanIn, fanOut, ttys, detect, serial>>

\* the serial read of the tick: the sends of lines 388, 406 and 424 returned
\* with their deliveries in flight
NotifySerialRead ==
    /\ pc = "serial"
    /\ CheckSerial
    /\ pending' = Submit(pending, last'.ambEvents)
    /\ pc' = "select"
    /\ UNCHANGED <<shutdownSent, fanIn, fanOut, ttys, detect, serial>>

\* the notifier completes a delivery
Deliver ==
    /\ pending > 0
    /\ pending' = pending - 1
    /\ UNCHANGED <<pc, alertState, last, warned, scenario, shutdownSent, fanIn, fanOut,
                   ttys, detect, serial>>

NextNotify ==
    \/ NotifyInitialCheck
    \/ NotifyTimerTick
    \/ NotifySerialRead
    \/ Deliver
    \/ Shutdown

\* monitorAndControl runs on to its return whenever it can; nothing makes
\* the notifier complete a delivery
SpecNotify == Init /\ [][NextNotify]_vars /\ WF_vars(NotifySerialRead)

---------------------------------------------------------------------------
(* The loop and the serial stream of the Arduino: SpecSerial *)

\* the lines the Arduino sends
ArduinoLines == {line \in SerialLines : line.kind # "none"}

\* nvidia-smi fails, prints nothing, or prints the line of one GPU at 65 or
\* at 72 degrees
StreamOutputs ==
    {out \in NotifyOutputs :
        \A i \in 1..Len(out.lines) :
            out.lines[i].usable /\ out.lines[i].temp \in {Deg(65), Deg(72)}}

\* scanner.Scan() returned false: there is no line
NoLine == [kind |-> "none", t |-> 0, h |-> 0]

\* the loop of line 436 without the break of line 480: it takes every line
\* that waits
ScannedAll(avail) == avail

\* the lines the loop of lines 436-481 takes from those that wait: the first,
\* for the break of line 480
Scanned(avail) == IF avail = <<>> THEN <<>> ELSE <<Head(avail)>>

\* the Arduino sends a line
ArduinoSends ==
    /\ Len(serial.avail) < MaxAvail
    /\ \E line \in ArduinoLines :
           serial' = [serial EXCEPT !.avail = Append(@, line)]
    /\ UNCHANGED <<pc, alertState, last, warned, scenario, shutdownSent, fanIn, fanOut,
                   ttys, detect, pending>>

StreamInitialCheck ==
    /\ pc = "start"
    /\ CheckGpuOn(StreamOutputs)
    /\ pc' = "serial"
    /\ UNCHANGED <<shutdownSent, fanIn, fanOut, ttys, detect, pending, serial>>

StreamTimerTick ==
    /\ pc = "select"
    /\ CheckGpuOn(StreamOutputs)
    /\ pc' = "serial"
    /\ UNCHANGED <<shutdownSent, fanIn, fanOut, ttys, detect, pending, serial>>

\* lines 435-481 on the stream: the ambient logic runs on the line taken
StreamSerialRead ==
    /\ pc = "serial"
    /\ LET lines == Scanned(serial.avail) IN
         /\ CheckSerialOn({IF lines = <<>> THEN NoLine ELSE lines[1]})
         /\ serial' = [avail |-> SubSeq(serial.avail, Len(lines) + 1, Len(serial.avail)),
                       taken |-> Len(lines)]
    /\ pc' = "select"
    /\ UNCHANGED <<shutdownSent, fanIn, fanOut, ttys, detect, pending>>

NextSerial ==
    \/ ArduinoSends
    \/ StreamInitialCheck
    \/ StreamTimerTick
    \/ StreamSerialRead
    \/ Shutdown

SpecSerial == Init /\ [][NextSerial]_vars

---------------------------------------------------------------------------
(* detectArduino, lines 118-207: SpecDetect *)

\* the serial device paths that may exist; n orders the paths of a class as
\* filepath.Glob returns them
DevicePaths ==
    {[class |-> "ttyACM", n |-> 0], [class |-> "ttyUSB", n |-> 0],
     [class |-> "ttyUSB", n |-> 1]}

\* lines 122-125
patterns == <<"ttyACM", "ttyUSB">>

\* a line the scanner returns during the probe, after TrimSpace: empty, not
\* empty without any of the four signatures of lines 188-191, or with one
ProbeLineKinds == {"blank", "other", "signature"}

\* how a device behaves: serial.OpenPort fails; or it opens and the write of
\* the test command fails; or both succeed and the scanner returns lines
\* before the deadline of line 179
TtyBehaviours ==
    {[open |-> FALSE, write |-> FALSE, lines |-> <<>>],
     [open |-> TRUE, write |-> FALSE, lines |-> <<>>]}
      \cup [open : {TRUE}, write : {TRUE}, lines : SeqsUpTo(ProbeLineKinds, MaxProbeLines)]

TtyStates == UNION {[D -> TtyBehaviours] : D \in SUBSET DevicePaths}

RECURSIVE SortedPaths(_)
\* the paths of S by increasing n
SortedPaths(S) ==
    IF S = {} THEN <<>>
    ELSE LET first == CHOOSE x \in S : \A y \in S : x.n <= y.n
         IN <<first>> \o SortedPaths(S \ {first})

\* filepath.Glob(pattern) on the devices that exist
Glob(pattern, exist) == SortedPaths({path \in exist : path.class = pattern})

RECURSIVE GlobAll(_, _)
\* lines 127-134: the matches of the patterns, appended pattern by pattern
GlobAll(i, exist) ==
    IF i > Len(patterns) THEN <<>>
    ELSE Glob(patterns[i], exist) \o GlobAll(i + 1, exist)

\* AfterGlob without the test of line 136
AfterGlobNoCheck(d, c) == [d EXCEPT !.pc = "loop", !.candidates = c, !.i = 1]

\* lines 136-140: no candidate is an error
AfterGlob(d, c) ==
    IF Len(c) = 0
    THEN [d EXCEPT !.pc = "returned", !.err = "NoDevices"]
    ELSE [d EXCEPT !.pc = "loop", !.candidates = c, !.i = 1]

\* the test of lines 184-191 on the lines the scanner returned
HasSignature(lines) == \E n \in 1..Len(lines) : lines[n] = "signature"

\* the test with line 184 only: any line that is not empty is a match
HasAnyLine(lines) == \E n \in 1..Len(lines) : lines[n] # "blank"

\* TryDevice with a match on any line that is not empty
TryDeviceAnyLine(d, tty) ==
    LET device == d.candidates[d.i]
        opened == [d EXCEPT !.opens = Append(@, device)]
    IN IF ~tty.open THEN [opened EXCEPT !.i = @ + 1]
       ELSE IF ~tty.write
       THEN [opened EXCEPT !.probed = Append(@, device), !.i = @ + 1]
       ELSE IF HasAnyLine(tty.lines)
       THEN [opened EXCEPT !.probed = Append(@, device), !.held = @ \cup {device},
                           !.pc = "returned", !.port = device, !.device = device]
       ELSE [opened EXCEPT !.probed = Append(@, device), !.i = @ + 1]

\* lines 143-204, one iteration of the loop over the candidates: the port
\* is closed on every path but the return of line 193
TryDevice(d, tty) ==
    LET device == d.candidates[d.i]
        opened == [d EXCEPT !.opens = Append(@, device)]
    IN IF ~tty.open THEN [opened EXCEPT !.i = @ + 1]
       ELSE IF ~tty.write
       THEN [opened EXCEPT !.probed = Append(@, device), !.i = @ + 1]
       ELSE IF HasSignature(tty.lines)
       THEN [opened EXCEPT !.probed = Append(@, device), !.held = @ \cup {device},
                           !.pc = "returned", !.port = device, !.device = device]
       ELSE [opened EXCEPT !.probed = Append(@, device), !.i = @ + 1]

RECURSIVE OpenedOf(_, _, _)
\* the candidates i.. that serial.OpenPort opened
OpenedOf(c, t, i) ==
    IF i > Len(c) THEN <<>>
    ELSE (IF t[c[i]].open THEN <<c[i]>> ELSE <<>>) \o OpenedOf(c, t, i + 1)

\* Exhausted with the error listing the candidates that could be opened
ExhaustedListsOpened(d, t) ==
    [d EXCEPT !.pc = "returned", !.err = "NotFound",
              !.checked = OpenedOf(d.candidates, t, 1)]

\* line 206: the error carries the candidates
Exhausted(d, t) ==
    [d EXCEPT !.pc = "returned", !.err = "NotFound", !.checked = d.candidates]

\* lines 119-140
DetectStart ==
    /\ detect.pc = "glob"
    /\ detect' = AfterGlob(detect, GlobAll(1, DOMAIN ttys))
    /\ UNCHANGED <<pc, alertState, last, warned, scenario, shutdownSent, fanIn, fanOut,
                   ttys, pending, serial>>

\* lines 143-204, the next candidate
DetectTry ==
    /\ detect.pc = "loop"
    /\ detect.i <= Len(detect.candidates)
    /\ detect' = TryDevice(detect, ttys[detect.candidates[detect.i]])
    /\ UNCHANGED <<pc, alertState, last, warned, scenario, shutdownSent, fanIn, fanOut,
                   ttys, pending, serial>>

\* line 206, after the last candidate
DetectExhausted ==
    /\ detect.pc = "loop"
    /\ detect.i > Len(detect.candidates)
    /\ detect' = Exhausted(detect, ttys)
    /\ UNCHANGED <<pc, alertState, last, warned, scenario, shutdownSent, fanIn, fanOut,
                   ttys, pending, serial>>

InitDetect ==
    /\ pc = "start"
    /\ alertState = InitialAlertState
    /\ last = NoTick
    /\ warned = [gpu |-> "no", ambient |-> "no"]
    /\ scenario = [step |-> 0, events |-> <<>>]
    /\ shutdownSent = 0
    /\ fanIn = <<0, 0>>
    /\ fanOut = NoFanCall
    /\ ttys \in TtyStates
    /\ detect = NoDetect
    /\ pending = 0
    /\ serial = NoSerial

NextDetect ==
    \/ DetectStart
    \/ DetectTry
    \/ DetectExhausted

SpecDetect == InitDetect /\ [][NextDetect]_vars

---------------------------------------------------------------------------
(* detectArduino with the read loop of lines 181-200 step by step: SpecProbe *)

\* milliseconds: the deadline of line 179, the ReadTimeout of line 149 and
\* the delay of line 199
ProbeDeadline == 5000
ReadTimeout == 500
ReadDelay == 100

\* the devices open or not and take the test command or not; what they send
\* is chosen read by read
ProbeTtyStates == {t \in TtyStates : \A path \in DOMAIN t : t[path].lines = <<>>}

\* scanner.Scan() returns false ("none": nothing, or no complete line, came
\* within the read timeout) or a line
ScanResults == {"none"} \cup ProbeLineKinds

\* scanner.Scan() returns at once or when the read timeout has run
ScanDurations == {0, ReadTimeout}

\* OpenAndProbe, lines 144-179: elapsed counts from the deadline set at 179
OpenAndProbe(d, tty) ==
    LET device == d.candidates[d.i]
        opened == [d EXCEPT !.opens = Append(@, device)]
    IN IF ~tty.open THEN [opened EXCEPT !.i = @ + 1]
       ELSE IF ~tty.write
       THEN [opened EXCEPT !.probed = Append(@, device), !.i = @ + 1]
       ELSE [opened EXCEPT !.probed = Append(@, device), !.held = @ \cup {device},
                           !.pc = "scan", !.elapsed = 0]

\* the time since line 179 after one more iteration of the loop: the read
\* and the delay of line 199
Elapse(elapsed, dur) == elapsed + dur + ReadDelay

\* the loop of line 181 without its test of the deadline
ScanGoesOnForever(elapsed) == TRUE

\* the test of line 181, in an iteration that has found no signature yet
ScanGoesOn(elapsed) == elapsed < ProbeDeadline

\* lines 182-199, one iteration: the return of line 193 on a signature line
ScanOnce(d, res, dur) ==
    IF res = "signature"
    THEN [d EXCEPT !.pc = "returned", !.port = d.candidates[d.i],
                   !.device = d.candidates[d.i]]
    ELSE [d EXCEPT !.elapsed = Elapse(@, dur)]

\* GiveUp without the Close of line 203
GiveUpLeavesOpen(d) == [d EXCEPT !.pc = "loop", !.i = @ + 1]

\* lines 202-203: the port is closed and the loop goes to the next candidate
GiveUp(d) ==
    [d EXCEPT !.pc = "loop", !.held = @ \ {d.candidates[d.i]}, !.i = @ + 1]

ProbeOpen ==
    /\ detect.pc = "loop"
    /\ detect.i <= Len(detect.candidates)
    /\ detect' = OpenAndProbe(detect, ttys[detect.candidates[detect.i]])
    /\ UNCHANGED <<pc, alertState, last, warned, scenario, shutdownSent, fanIn, fanOut,
                   ttys, pending, serial>>

ProbeScan ==
    /\ detect.pc = "scan"
    /\ ScanGoesOn(detect.elapsed)
    /\ \E res \in ScanResults, dur \in ScanDurations :
           detect' = ScanOnce(detect, res, dur)
    /\ UNCHANGED <<pc, alertState, last, warned, scenario, shutdownSent, fanIn, fanOut,
                   ttys, pending, serial>>

ProbeGiveUp ==
    /\ detect.pc = "scan"
    /\ ~ScanGoesOn(detect.elapsed)
    /\ detect' = GiveUp(detect)
    /\ UNCHANGED <<pc, alertState, last, warned, scenario, shutdownSent, fanIn, fanOut,
                   ttys, pending, serial>>

InitProbe ==
    /\ pc = "start"
    /\ alertState = InitialAlertState
    /\ last = NoTick
    /\ warned = [gpu |-> "no", ambient |-> "no"]
    /\ scenario = [step |-> 0, events |-> <<>>]
    /\ shutdownSent = 0
    /\ fanIn = <<0, 0>>
    /\ fanOut = NoFanCall
    /\ ttys \in ProbeTtyStates
    /\ detect = NoDetect
    /\ pending = 0
    /\ serial = NoSerial

NextProbe ==
    \/ DetectStart
    \/ ProbeOpen
    \/ ProbeScan
    \/ ProbeGiveUp
    \/ DetectExhausted

\* detectArduino runs on: every call it makes returns
SpecProbe == InitProbe /\ [][NextProbe]_vars /\ WF_vars(NextProbe)

---------------------------------------------------------------------------
(* Properties of the alert state machine *)

\* the step just taken ran lines 346-433 of a tick
GpuStepTaken == pc # "serial" /\ pc' = "serial"

\* the step just taken ran lines 435-481 of a tick
SerialStepTaken == pc = "serial" /\ pc' = "select"

\* the GPU alert logic ran in the latest tick
GpuLogicRan == last.ran /\ ~last.err

HasKind(evs, kind) == \E i \in 1..Len(evs) : evs[i].kind = kind

InWarningBand(v) == v > config.WarningThreshold /\ v <= config.CriticalThreshold

\* C1 as stated: on each channel, a Warning event is never emitted while the
\* latest event of the channel is a Warning (no Recovery or Critical event
\* of the channel came in between).
C1_NoTwoWarnings ==
    [][/\ (GpuStepTaken /\ HasKind(last'.gpuEvents, "Warning")) => warned.gpu = "no"
       /\ (SerialStepTaken /\ HasKind(last'.ambEvents, "Warning"))
             => warned.ambient = "no"]_vars

\* C1 as amended: on each channel, after a Warning event whose send was
\* accepted no Warning event is emitted until a Recovery or a Critical event
\* of the channel has been emitted; a Warning whose send failed is emitted
\* again.
C1_NoWarningAfterAcceptedWarning ==
    [][/\ (GpuStepTaken /\ HasKind(last'.gpuEvents, "Warning"))
             => warned.gpu # "accepted"
       /\ (SerialStepTaken /\ HasKind(last'.ambEvents, "Warning"))
             => warned.ambient # "accepted"]_vars

\* a tick in the warning band after an accepted GPU Warning, and an ambient
\* reading above the threshold after an accepted ambient Warning, both silent
C1_Witness ==
    /\ pc = "select"
    /\ GpuLogicRan /\ InWarningBand(last.maxTemp)
    /\ warned.gpu = "accepted" /\ last.gpuEvents = <<>>
    /\ last.line = "msg" /\ alertState.LastAmbientTemp > config.AmbientThreshold
    /\ warned.ambient = "accepted" /\ last.ambEvents = <<>>

\* C2: a tick whose reading (the maximum the alert logic works on) is at
\* most the warning threshold emits, when a GPU flag was open, exactly one
\* Recovery event carrying the reading and leaves both flags clear; when no
\* flag was open it emits nothing.
C2_RecoveryOnce ==
    (GpuLogicRan /\ last.maxTemp <= config.WarningThreshold) =>
        IF last.before.GPUWarning \/ last.before.GPUCritical
        THEN /\ Len(last.gpuEvents) = 1
             /\ last.gpuEvents[1].kind = "Recovery"
             /\ last.gpuEvents[1].value = last.maxTemp
             /\ ~alertState.GPUWarning /\ ~alertState.GPUCritical
        ELSE /\ last.gpuEvents = <<>>
             /\ ~alertState.GPUWarning /\ ~alertState.GPUCritical

C2_Witness ==
    /\ GpuLogicRan /\ last.usable /\ last.maxTemp <= config.WarningThreshold
    /\ last.before.GPUCritical
    /\ HasKind(last.gpuEvents, "Recovery")

\* C3: a tick whose reading is in the warning band and which starts with
\* critical_open closes critical_open, leaves warning_open set and emits no
\* GPU event.
C3_SilentDeescalation ==
    (GpuLogicRan /\ InWarningBand(last.maxTemp) /\ last.before.GPUCritical) =>
        /\ ~alertState.GPUCritical
        /\ alertState.GPUWarning
        /\ last.gpuEvents = <<>>

C3_Witness ==
    /\ GpuLogicRan /\ InWarningBand(last.maxTemp) /\ last.before.GPUCritical
    /\ ~alertState.GPUCritical

\* C4: with thresholds 70 and 80, from both flags clear and with every send
\* accepted, the readings 65, 72, 85, 73, 65 of a single GPU give no event,
\* Warning(72), Critical(85), no event, Recovery(65).
C4_Scenario ==
    LET W == Event("gpu", "Warning", 0, Deg(72), TRUE)
        C == Event("gpu", "Critical", 0, Deg(85), TRUE)
        R == Event("gpu", "Recovery", -1, Deg(65), TRUE)
    IN /\ config.WarningThreshold = Deg(70) /\ config.CriticalThreshold = Deg(80)
       /\ scenario.step = 1 => scenario.events = <<>>
       /\ scenario.step = 2 => scenario.events = <<W>>
       /\ scenario.step = 3 => scenario.events = <<W, C>>
       /\ scenario.step = 4 => scenario.events = <<W, C>>
       /\ scenario.step = 5 => scenario.events = <<W, C, R>>

C4_Witness == scenario.step = 5 /\ pc = "select"

\* C5: GPUCritical implies GPUWarning in every reachable state.
C5_CriticalImpliesWarning == alertState.GPUCritical => alertState.GPUWarning

\* critical reached straight from normal, in a tick after a failed send
C5_Witness ==
    /\ alertState.GPUCritical /\ ~last.before.GPUWarning
    /\ warned.gpu = "no" /\ warned.ambient = "failed"

\* C6 as stated: a tick in which the send of an alert event failed ends with
\* the flags of that channel as they were when the tick started.
C6_FailedSendKeepsFlags ==
    /\ (last.ran /\ \E i \in 1..Len(last.gpuEvents) : ~last.gpuEvents[i].ok)
         => /\ alertState.GPUWarning = last.before.GPUWarning
            /\ alertState.GPUCritical = last.before.GPUCritical
    /\ (last.scanned /\ \E i \in 1..Len(last.ambEvents) : ~last.ambEvents[i].ok)
         => alertState.AmbientWarning = last.before.AmbientWarning

\* C7: a tick whose acquisition fails changes neither the GPU flags nor the
\* last commanded fan speed, writes no fan command and emits no GPU event;
\* it goes on to the serial read, and from there to the select of main.
C7_AcquisitionFailure ==
    [][/\ (GpuStepTaken /\ last'.err)
             => /\ alertState'.GPUWarning = alertState.GPUWarning
                /\ alertState'.GPUCritical = alertState.GPUCritical
                /\ alertState'.LastFanSpeed = alertState.LastFanSpeed
                /\ last'.wrote = <<>>
                /\ last'.gpuEvents = <<>>
                /\ ~last'.scanned
       /\ (pc = "serial" /\ last.err)
             => /\ pc' = "select"
                /\ last'.scanned
                /\ last'.err /\ last'.wrote = <<>> /\ last'.gpuEvents = <<>>
                /\ alertState'.GPUWarning = alertState.GPUWarning
                /\ alertState'.GPUCritical = alertState.GPUCritical
                /\ alertState'.LastFanSpeed = alertState.LastFanSpeed]_vars

\* a tick with a failed acquisition, an open GPU alert and a fan speed that
\* is not the default, which read an ambient message and returned to main
C7_Witness ==
    /\ pc = "select" /\ last.ran /\ last.err
    /\ last.scanned /\ last.line = "msg"
    /\ alertState.GPUWarning /\ alertState.LastFanSpeed # 50

\* C8 as stated: an output with no usable row makes the acquisition fail, and
\* the tick neither writes a fan command nor emits a GPU event.
C8_NoUsableRowIsAnError ==
    (last.ran /\ ~last.usable) =>
        /\ last.err
        /\ last.wrote = <<>>
        /\ last.gpuEvents = <<>>

\* the reading lists getGPUTemperatures can return
ReadingLists == {getGPUTemperatures(out).temps : out \in NvidiaOutputs}

EventsNaming(evs, index) == SelectSeq(evs, LAMBDA e : e.index = index)

FirstHottest(t) ==
    LET i == CHOOSE k \in 1..Len(t) :
                 /\ \A n \in 1..Len(t) : t[n].Temperature <= t[k].Temperature
                 /\ \A n \in 1..(k - 1) : t[n].Temperature < t[k].Temperature
    IN t[i]

C10_MonotoneAndBounded ==
    fanOut.done =>
        /\ fanIn[1] <= fanIn[2] => fanOut.one <= fanOut.two
        /\ fanOut.one \in 30..100
        /\ fanOut.two \in 30..100

\* a temperature below zero and a band boundary
C10_Witness ==
    /\ fanOut.done
    /\ fanIn[1] < 0 /\ fanOut.one = 30
    /\ fanIn[2] = Deg(70) /\ fanOut.two = 75

\* C11: the duty cycle of two GPUs is the duty cycle of the hotter of the
\* two alone; for the readings 60 and 82 it is 100.
C11_DutyOfHottest ==
    fanOut.done =>
        /\ fanOut.both = (IF fanIn[1] >= fanIn[2] THEN fanOut.one ELSE fanOut.two)
        /\ fanIn = <<Deg(60), Deg(82)>> => fanOut.both = 100

C11_Witness ==
    /\ fanOut.done
    /\ fanIn = <<Deg(60), Deg(82)>>
    /\ fanOut.one = 50 /\ fanOut.both = 100

---------------------------------------------------------------------------
(* Properties of the fan control *)

\* C12: a tick writes a fan command exactly when it acquired readings and
\* the duty cycle it computed differs from the stored LastFanSpeed; it
\* writes at most one command, carrying that duty cycle, and none in its
\* serial part.
C12_WriteOnlyOnChange ==
    [][/\ GpuStepTaken
             => /\ Len(last'.wrote) <= 1
                /\ last'.err => last'.wrote = <<>>
                /\ ~last'.err =>
                      (last'.wrote # <<>> <=> last'.fanSpeed # alertState.LastFanSpeed)
                /\ \A i \in 1..Len(last'.wrote) : last'.wrote[i].speed = last'.fanSpeed
       /\ SerialStepTaken => last'.wrote = last.wrote]_vars

\* a tick that computed the stored duty cycle, not the startup one, and
\* wrote nothing
C12_Witness ==
    /\ pc = "select" /\ GpuLogicRan /\ last.usable
    /\ last.fanSpeed = alertState.LastFanSpeed /\ last.fanSpeed = 100
    /\ last.wrote = <<>>

\* the tick in progress acquired the readings and its fan write, if it made
\* one, succeeded
WriteSucceeded ==
    /\ pc = "serial" /\ ~last.err
    /\ \A i \in 1..Len(last.wrote) : last.wrote[i].ok

\* the safety half of C13
C13_WriteOutcome ==
    [][/\ (GpuStepTaken /\ last'.wrote # <<>>)
             => IF last'.wrote[1].ok
                THEN alertState'.LastFanSpeed = last'.wrote[1].speed
                ELSE alertState'.LastFanSpeed = alertState.LastFanSpeed
       /\ (GpuStepTaken /\ ~last'.err /\ alertState.LastFanSpeed # RetryTarget)
             => /\ Len(last'.wrote) = 1
                /\ last'.wrote[1].speed = RetryTarget]_vars

\* the liveness half of C13
C13_TargetReached ==
    ([]<>WriteSucceeded) => <>[](alertState.LastFanSpeed = RetryTarget)

\* C13: a successful write stores the written duty cycle, a failed one
\* leaves LastFanSpeed as it was; while LastFanSpeed differs from the target
\* every tick that acquires the readings writes the target; and when ticks
\* whose write succeeds keep coming, LastFanSpeed is the target from some
\* tick on.
C13_StoredFollowsWrites == C13_WriteOutcome /\ C13_TargetReached

\* a tick later than the one that sent the Critical alert (whose write had
\* failed) wrote the same target again, and the write succeeded
C13_Witness ==
    /\ pc = "select" /\ GpuLogicRan
    /\ last.before.GPUCritical
    /\ last.wrote = <<[speed |-> 100, ok |-> TRUE]>>
    /\ alertState.LastFanSpeed = RetryTarget

---------------------------------------------------------------------------
(* Properties of the device discovery *)

\* the device opens, takes the test command and sends a signature line
\* before the deadline
Answers(tty) == tty.open /\ tty.write /\ HasSignature(tty.lines)

\* k is the only candidate that answers
OnlyAnswers(k) ==
    /\ Answers(ttys[detect.candidates[k]])
    /\ \A j \in 1..Len(detect.candidates) :
           j # k => ~Answers(ttys[detect.candidates[j]])

\* C14: when only the k-th candidate answers, detectArduino returns the open
\* port and the path of the k-th candidate, after at most k calls of
\* OpenPort, none of them on a candidate after the k-th.
C14_ReturnsTheKth ==
    \A k \in 1..Len(detect.candidates) :
        OnlyAnswers(k) =>
            /\ \A n \in 1..Len(detect.opens) :
                   \E j \in 1..k : detect.opens[n] = detect.candidates[j]
            /\ Len(detect.opens) <= k
            /\ detect.pc = "returned" =>
                  /\ detect.err = "nil"
                  /\ detect.port = detect.candidates[k]
                  /\ detect.device = detect.candidates[k]
                  /\ detect.port \in detect.held

\* three candidates; the first opens and sends a line without signature,
\* the second is returned
C14_Witness ==
    /\ detect.pc = "returned" /\ Len(detect.candidates) = 3
    /\ OnlyAnswers(2)
    /\ ttys[detect.candidates[1]].lines = <<"other">>
    /\ detect.port = [class |-> "ttyUSB", n |-> 0]
    /\ Len(detect.opens) = 2

\* C15: when no device matches the patterns, detectArduino returns an error
\* and no port, and has opened and probed nothing.
C15_NoCandidates ==
    (DOMAIN ttys = {} /\ detect.pc # "glob") =>
        /\ detect.pc = "returned"
        /\ detect.err = "NoDevices"
        /\ detect.port = "nil" /\ detect.device = ""
        /\ detect.opens = <<>> /\ detect.probed = <<>> /\ detect.held = {}

C15_Witness ==
    /\ DOMAIN ttys = {} /\ detect.pc = "returned" /\ detect.err = "NoDevices"

\* C16: when there are candidates and none answers, detectArduino has tried
\* every candidate and returns the not-found error with the list of the
\* candidates, and no port.
C16_NotFound ==
    (/\ detect.pc = "returned"
     /\ Len(detect.candidates) > 0
     /\ \A k \in 1..Len(detect.candidates) : ~Answers(ttys[detect.candidates[k]]))
        => /\ detect.err = "NotFound"
           /\ detect.opens = detect.candidates
           /\ detect.checked = detect.candidates
           /\ detect.port = "nil" /\ detect.device = ""
           /\ detect.held = {}

\* three candidates: one does not open, one refuses the test command, one
\* sends a line without signature
C16_Witness ==
    /\ detect.pc = "returned" /\ detect.err = "NotFound"
    /\ Len(detect.checked) = 3
    /\ ~ttys[detect.candidates[1]].open
    /\ ttys[detect.candidates[2]].open /\ ~ttys[detect.candidates[2]].write
    /\ ttys[detect.candidates[3]].lines = <<"other">>

---------------------------------------------------------------------------
(* Properties of the loop of main *)

\* C17: the first step of main is a tick; a tick runs to its end before
\* main takes an event; at the select main starts a tick or, on a signal,
\* sends one shutdown notification and returns; after that nothing runs,
\* and no notification is sent on any other step.
C17_LoopOrder ==
    [][/\ pc = "start" => pc' = "serial" /\ last'.ran
       /\ pc = "serial" => pc' = "select" /\ last'.scanned
       /\ pc = "select" =>
             \/ pc' = "serial" /\ ~last'.scanned
             \/ pc' = "done" /\ alertState' = alertState /\ last' = last
       /\ pc # "done"
       /\ shutdownSent' = (IF pc' = "done" THEN 1 ELSE 0)]_vars

\* main returned after the initial check and a tick on the timer
C17_Witness ==
    /\ pc = "done" /\ shutdownSent = 1
    /\ last.ran /\ last.scanned /\ last.before.GPUWarning

\* a tick that has started ends
C18_TickEnds == (pc = "serial") ~> (pc = "select")

\* at the select a tick can start, whatever is in flight
C18_TickStarts == [](pc = "select" => ENABLED NotifyTimerTick)

---------------------------------------------------------------------------
(* Properties of the threshold tests *)

\* C19: a reading equal to the critical threshold is handled as the warning
\* band (no Critical event, a Warning unless one is open, GPUCritical closed);
\* a reading equal to the warning threshold is handled as normal (no Warning
\* and no Critical event, a Recovery exactly when a flag was open); an
\* ambient reading equal to the ambient threshold raises no ambient Warning.
C19_ThresholdNotExceeded ==
    /\ (GpuLogicRan /\ last.maxTemp = config.CriticalThreshold)
          => /\ ~HasKind(last.gpuEvents, "Critical")
             /\ ~HasKind(last.gpuEvents, "Recovery")
             /\ HasKind(last.gpuEvents, "Warning") <=> ~last.before.GPUWarning
             /\ ~alertState.GPUCritical
    /\ (GpuLogicRan /\ last.maxTemp = config.WarningThreshold)
          => /\ ~HasKind(last.gpuEvents, "Critical")
             /\ ~HasKind(last.gpuEvents, "Warning")
             /\ HasKind(last.gpuEvents, "Recovery")
                   <=> (last.before.GPUWarning \/ last.before.GPUCritical)
    /\ (/\ last.scanned /\ last.line = "msg"
        /\ alertState.LastAmbientTemp = config.AmbientThreshold)
          => /\ ~HasKind(last.ambEvents, "Warning")
             /\ HasKind(last.ambEvents, "Recovery") <=> last.before.AmbientWarning

\* a tick that read exactly the critical threshold with no flag open, and
\* exactly the ambient threshold with the ambient warning open
C19_Witness ==
    /\ pc = "select" /\ GpuLogicRan
    /\ last.maxTemp = config.CriticalThreshold
    /\ ~last.before.GPUWarning /\ HasKind(last.gpuEvents, "Warning")
    /\ last.line = "msg" /\ alertState.LastAmbientTemp = config.AmbientThreshold
    /\ last.before.AmbientWarning /\ HasKind(last.ambEvents, "Recovery")

\* C20 as stated: a reading above the critical threshold emits, when
\* GPUCritical was clear, exactly one Critical event and leaves both flags
\* set; when GPUCritical was set, it emits nothing.
C20_CriticalSetsFlags ==
    (GpuLogicRan /\ last.maxTemp > config.CriticalThreshold) =>
        IF ~last.before.GPUCritical
        THEN /\ Len(last.gpuEvents) = 1
             /\ last.gpuEvents[1].kind = "Critical"
             /\ alertState.GPUCritical /\ alertState.GPUWarning
        ELSE last.gpuEvents = <<>>

\* C20 as amended: a reading above the critical threshold emits, when
\* GPUCritical was clear, exactly one Critical event (and no Warning event,
\* whatever GPUWarning was); both flags are set when the send is accepted
\* and are left as they were when it fails, so that the next reading above
\* the threshold emits Critical again.  When GPUCritical was set it emits
\* nothing and changes no flag.
C20_CriticalOncePerAcceptedSend ==
    (GpuLogicRan /\ last.maxTemp > config.CriticalThreshold) =>
        IF ~last.before.GPUCritical
        THEN /\ Len(last.gpuEvents) = 1
             /\ last.gpuEvents[1].kind = "Critical"
             /\ last.gpuEvents[1].value = last.maxTemp
             /\ IF last.gpuEvents[1].ok
                THEN alertState.GPUCritical /\ alertState.GPUWarning
                ELSE /\ alertState.GPUCritical = last.before.GPUCritical
                     /\ alertState.GPUWarning = last.before.GPUWarning
        ELSE /\ last.gpuEvents = <<>>
             /\ alertState.GPUCritical /\ alertState.GPUWarning

\* a reading above the critical threshold with no flag open, whose Critical
\* event was accepted
C20_Witness ==
    /\ GpuLogicRan /\ last.maxTemp > config.CriticalThreshold
    /\ ~last.before.GPUWarning /\ ~last.before.GPUCritical
    /\ Len(last.gpuEvents) = 1 /\ last.gpuEvents[1].ok
    /\ alertState.GPUCritical /\ alertState.GPUWarning

---------------------------------------------------------------------------
(* Properties of the ambient step *)

\* C21: a tick takes at most one line from the serial stream, and none
\* before its serial read; when the line is no ambient message (or there is
\* none) the tick emits no ambient event and leaves AmbientWarning as it
\* was; the serial read leaves GPUWarning, GPUCritical and LastFanSpeed as
\* they were.
C21_AmbientStepFrame ==
    [][/\ GpuStepTaken => serial' = serial
       /\ SerialStepTaken
             => /\ serial'.taken <= 1
                /\ Len(serial'.avail) + serial'.taken = Len(serial.avail)
                /\ Len(serial'.avail) >= Len(serial.avail) - 1
                /\ alertState'.GPUWarning = alertState.GPUWarning
                /\ alertState'.GPUCritical = alertState.GPUCritical
                /\ alertState'.LastFanSpeed = alertState.LastFanSpeed
                /\ last'.line # "msg"
                      => /\ last'.ambEvents = <<>>
                         /\ alertState'.AmbientWarning = alertState.AmbientWarning
                         /\ alertState' = alertState]_vars

\* with two lines waiting, the ambient warning and a GPU warning open and
\* the fan off its startup speed, a tick took a line that is no ambient
\* message and left the other
C21_Witness ==
    /\ pc = "select" /\ last.scanned /\ last.line = "other"
    /\ serial.taken = 1 /\ Len(serial.avail) = 1
    /\ alertState.AmbientWarning /\ alertState.GPUWarning
    /\ alertState.LastFanSpeed # 50

---------------------------------------------------------------------------
(* Properties of the probe of a candidate *)

\* detectArduino returns
C22_Returns == <>(detect.pc = "returned")

\* a candidate is read no longer than its deadline and one more read, and
\* the call returns a port and no error, or an error and no port
C22_Bounded ==
    [][/\ detect'.elapsed < ProbeDeadline + ReadTimeout + ReadDelay
       /\ detect'.pc = "returned" =>
             IF detect'.err = "nil"
             THEN /\ detect'.port \in DevicePaths
                  /\ detect'.port = detect'.device
             ELSE detect'.port = "nil" /\ detect'.device = ""]_vars

\* C22: detectArduino returns whatever the candidates do: a candidate that
\* sends no signature line is given up once its deadline has passed, and the
\* call returns a port or an error.
C22_DiscoveryTerminates == C22_Returns /\ C22_Bounded

\* not found, after the last of three candidates was read to its deadline
C22_Witness ==
    /\ detect.pc = "returned" /\ detect.err = "NotFound"
    /\ Len(detect.candidates) = 3
    /\ detect.probed = detect.candidates
    /\ detect.elapsed >= ProbeDeadline

\* C23: at most one port is open at any time: none between two candidates,
\* the candidate's while it is read, none when detectArduino returns an
\* error, and the returned one when it returns a port.
C23_OneHandle ==
    /\ Cardinality(detect.held) <= 1
    /\ detect.pc \in {"glob", "loop"} => detect.held = {}
    /\ detect.pc = "scan" => detect.held = {detect.candidates[detect.i]}
    /\ (detect.pc = "returned" /\ detect.err # "nil") => detect.held = {}
    /\ (detect.pc = "returned" /\ detect.err = "nil") => detect.held = {detect.port}

\* the third candidate is returned; the first refused the test command and
\* the second was read to its deadline
C23_Witness ==
    /\ detect.pc = "returned" /\ detect.err = "nil"
    /\ Len(detect.candidates) = 3 /\ detect.port = detect.candidates[3]
    /\ ttys[detect.candidates[1]].open /\ ~ttys[detect.candidates[1]].write
    /\ detect.probed = detect.candidates
    /\ detect.held = {detect.port}

=============================================================================
